---------------------------- MODULE Spec2Model ----------------------------
(***************************************************************************)
(* The per-guild playback scheduler of src/cogs/music_cog.py (MusicCog):   *)
(* the dictionaries the cog keeps per guild, the coroutines the event loop *)
(* runs for it (one action per atomic stretch between two awaits), and the *)
(* discord.py voice client those coroutines drive.                         *)
(*                                                                         *)
(* A Python dict is a TLA+ function whose DOMAIN is the set of its keys:   *)
(* `guild_id in self.d` is `g \in DOMAIN d`, `del self.d[guild_id]` is     *)
(* Del(d, g), `self.d.get(guild_id, x)` is Get(d, g, x).                   *)
(***************************************************************************)
EXTENDS Integers, Sequences, FiniteSets, Bags, TLC

(***************************************************************************)
(* Bounds of the model.                                                    *)
(***************************************************************************)
\* the catalog holds 0..NumSongs tracks (song_cache, chosen in Init)
NumSongs == 2
\* 'started' events recorded over a run (every track start records one)
MaxStarts == 3
\* commands and button presses the users issue over a run
MaxCmds == 3
\* the same three bounds of the runs that exercise the queues alone (SpecQueue)
QueueSongs == 4
QueueStarts == 2
QueueCmds == 3
\* starts and commands of the runs that follow the refills to a rest (SpecRefill)
RefillStarts == 3
RefillCmds == 2
\* the same for the runs of the loop modes
LoopSongs == 2
LoopStarts == 2
LoopCmds == 4

\* the regular queue is kept at this depth (music_cog.py: "3 - current_regular_count")
MinRegular == 3

Guilds == {"g1", "g2"}

VARIABLES
    song_cache,          \* self.song_cache: track id -> the track's dict (the fields the cog writes)
    song_stats,          \* self.song_stats: track id -> counters
    music_queues,        \* self.music_queues: guild -> regular queue
    priority_queues,     \* self.priority_queues: guild -> priority queue
    now_playing,         \* self.now_playing: guild -> track
    pause_states,        \* self.pause_states: guild -> bool
    loop_modes,          \* self.loop_modes: guild -> 'off' | 'single' | 'queue'
    current_play_start,  \* self.current_play_start: guild -> timestamp (its presence is what the code reads)
    skip_in_progress,    \* self.skip_in_progress: guild -> bool
    stop_in_progress,    \* self.stop_in_progress: guild -> bool
    voice_client,        \* guild.voice_client: guild -> the connection's audio player; no key: None
    tasks,               \* the event loop: bag of coroutines suspended at an await or scheduled
    humans,              \* guild -> number of non-bot members in the channel the bot uses
    alone_since,         \* guild -> the attribute alone_since of its VoiceClient object
    reply,               \* the message the last command answered with ("": none modelled)
    cmds_left,           \* commands and button presses the users may still issue (model bound)
    starts_left,         \* track starts the run may still record (model bound)
    moves_left,          \* joins and leaves of the channel still to come (model bound)
    faults_left          \* failures of the audio source still to come (model bound)

cogVars == <<music_queues, priority_queues, now_playing, pause_states, loop_modes,
             current_play_start, skip_in_progress, stop_in_progress>>
budget == <<cmds_left, starts_left, moves_left, faults_left>>
vars == <<song_cache, song_stats, cogVars, voice_client, tasks, humans, alone_since, reply,
          budget>>

\* alone_since is an attribute of the VoiceClient object: it goes with the connection
AloneKept ==
    alone_since' = [g \in DOMAIN alone_since \cap DOMAIN voice_client' |-> alone_since[g]]
\* a step of the event loop or of the player thread: nobody joins, leaves or commands
Internal == UNCHANGED <<reply, budget, humans>> /\ AloneKept
\* lines 231, 989, 1703 and 1755: commands and buttons are taken from a user who
\* is in the bot's voice channel
ByUser(g) == humans[g] > 0 /\ UNCHANGED humans /\ AloneKept

\* a user issues one more command, which answers msg
Replying(msg) ==
    /\ cmds_left > 0 /\ cmds_left' = cmds_left - 1 /\ reply' = msg
    /\ UNCHANGED <<starts_left, moves_left, faults_left>>
Command == Replying("")

(***************************************************************************)
(* Python dict operations.                                                 *)
(***************************************************************************)
Get(d, k, dflt) == IF k \in DOMAIN d THEN d[k] ELSE dflt
Del(d, k) == [x \in DOMAIN d \ {k} |-> d[x]]
Put(d, k, v) == [x \in DOMAIN d \cup {k} |-> IF x = k THEN v ELSE d[x]]
EmptyDict == [x \in {} |-> 0]

Range(s) == {s[i] : i \in 1..Len(s)}

(***************************************************************************)
(* The event loop's tasks.  kind names the coroutine and where it is       *)
(* suspended, arg is the track (or the count) it carries.  For a pending   *)
(* on_song_end, arg is the track whose player ended and why records which  *)
(* call ended that player.                                                 *)
(***************************************************************************)
Task(kind, g, arg, why) == [kind |-> kind, g |-> g, arg |-> arg, why |-> why]
One(t) == SetToBag({t})
NumTasks(g, kinds) ==
    BagCardinality([t \in {u \in DOMAIN tasks : u.g = g /\ u.kind \in kinds} |-> tasks[t]])

(***************************************************************************)
(* discord.py VoiceClient, as the cog uses it.                             *)
(***************************************************************************)
NoPlayer == [player |-> "none", track |-> 0, paused |-> FALSE]
IsConnected(g) == g \in DOMAIN voice_client
IsPlaying(g) == IsConnected(g) /\ voice_client[g].player # "none" /\ ~voice_client[g].paused
IsPaused(g) == IsConnected(g) /\ voice_client[g].player # "none" /\ voice_client[g].paused
\* the `after` callback of the player that VoiceClient.stop() ends (a TTS player has none)
AfterStop(g, why) ==
    IF IsConnected(g) /\ voice_client[g].player = "song"
    THEN One(Task("on_song_end", g, voice_client[g].track, why))
    ELSE EmptyBag
\* a play_song waiting in tts_speak polls the VoiceClient object it captured
RetireTts(b, g) ==
    LET conv(t) == IF t.g = g /\ t.kind = "play_song_tts"
                   THEN [t EXCEPT !.kind = "play_song_tts_old"] ELSE t
        cnt(u) == (IF u \in DOMAIN b /\ conv(u) = u THEN b[u] ELSE 0)
                  + (IF u.kind = "play_song_tts_old"
                        /\ [u EXCEPT !.kind = "play_song_tts"] \in DOMAIN b
                     THEN b[[u EXCEPT !.kind = "play_song_tts"]] ELSE 0)
    IN  [u \in {conv(t) : t \in DOMAIN b} |-> cnt(u)]

(***************************************************************************)
(* update_song_stats: the playback counters.                               *)
(***************************************************************************)
NoStats == [started |-> 0, completed |-> 0, skipped |-> 0]
UpdateSongStats(stats, song, event) ==
    LET s == Get(stats, song, NoStats) IN
    Put(stats, song,
        CASE event = "started"   -> [s EXCEPT !.started = @ + 1]
          [] event = "completed" -> [s EXCEPT !.completed = @ + 1]
          [] event = "skipped"   -> [s EXCEPT !.skipped = @ + 1]
          [] OTHER -> s)

(***************************************************************************)
(* add_random_songs.                                                       *)
(***************************************************************************)
\* random.sample(population, k): every ordered choice of k distinct elements
RECURSIVE Samples(_, _)
Samples(S, k) ==
    IF k = 0 THEN {<<>>}
    ELSE UNION {{<<x>> \o rest : rest \in Samples(S \ {x}, k - 1)} : x \in S}
Min(a, b) == IF a < b THEN a ELSE b
\* the exclusion of lines 583-594 without the now-playing track
AvailableSongsButCurrent(cache, mq, pq, np, g) ==
    DOMAIN cache \ (Range(Get(mq, g, <<>>)) \cup Range(Get(pq, g, <<>>)))
\* the tracks of the catalog that are neither queued nor playing
AvailableSongs(cache, mq, pq, np, g) ==
    DOMAIN cache \ (Range(Get(mq, g, <<>>)) \cup Range(Get(pq, g, <<>>))
                    \cup (IF g \in DOMAIN np THEN {np[g]} ELSE {}))
\* how many tracks one call adds
NumToAdd(min_count, available) == Min(min_count, Cardinality(available))
\* the samples one call of add_random_songs(g, min_count) may draw
RandomSongs(cache, mq, pq, np, g, min_count) ==
    IF DOMAIN cache = {} THEN {<<>>}
    ELSE LET available == AvailableSongs(cache, mq, pq, np, g)
         IN  IF available = {} THEN {<<>>}
             ELSE Samples(available, NumToAdd(min_count, available))
\* lines 608-613 appending to the regular queue of every guild
ExtendEveryQueue(mq, g, picked) ==
    IF picked = <<>> THEN mq
    ELSE [h \in DOMAIN mq \cup {g} |-> (IF h \in DOMAIN mq THEN mq[h] ELSE <<>>) \o picked]
\* the regular queues after the call that drew `picked`
ExtendQueue(mq, g, picked) ==
    IF picked = <<>> THEN mq ELSE Put(mq, g, Get(mq, g, <<>>) \o picked)
\* song['is_random'] = True on every drawn track's dict
MarkRandom(cache, picked) ==
    [s \in DOMAIN cache |-> IF s \in Range(picked)
                            THEN [cache[s] EXCEPT !.is_random = TRUE] ELSE cache[s]]
\* play_song's song_info['duration_str'] = ...
MarkDuration(cache, song) ==
    [s \in DOMAIN cache |-> IF s = song
                            THEN [cache[s] EXCEPT !.duration_str = TRUE] ELSE cache[s]]
\* how many tracks a handler asks for to refill a regular queue of length n
SongsToAdd(n) == MinRegular - n

\* the cog after __init__ and initialize_cache, with a catalog of n tracks; the
\* user who will give the commands sits in the voice channel
InitFull(sizes, starts, cmds, moves, faults) ==
    /\ \E n \in sizes :
         song_cache = [s \in 1..n |-> [is_random |-> FALSE, duration_str |-> FALSE]]
    /\ song_stats = EmptyDict
    /\ music_queues = EmptyDict
    /\ priority_queues = EmptyDict
    /\ now_playing = EmptyDict
    /\ pause_states = EmptyDict
    /\ loop_modes = EmptyDict
    /\ current_play_start = EmptyDict
    /\ skip_in_progress = EmptyDict
    /\ stop_in_progress = EmptyDict
    /\ voice_client = EmptyDict
    /\ tasks = EmptyBag
    /\ reply = ""
    /\ humans = [g \in Guilds |-> 1]
    /\ alone_since = EmptyDict
    /\ cmds_left = cmds
    /\ starts_left = starts
    /\ moves_left = moves
    /\ faults_left = faults
\* the same with nobody joining or leaving and an audio source that never fails
InitWith(sizes, starts, cmds) == InitFull(sizes, starts, cmds, 0, 0)

Init == InitWith(0..NumSongs, MaxStarts, MaxCmds)

(***************************************************************************)
(* /play (MusicCog.play).                                                  *)
(***************************************************************************)
\* lines 229-259: the checks, the connect, up to `await interaction.response.defer()`
Play(g, song) ==
    /\ song \in DOMAIN song_cache
    /\ Command
    /\ voice_client' = IF IsConnected(g) THEN voice_client ELSE Put(voice_client, g, NoPlayer)
    /\ tasks' = tasks (+) One(Task("play", g, song, ""))
    /\ UNCHANGED <<song_cache, song_stats, cogVars>>

\* line 280: is_playing = voice_client and voice_client.is_playing()
PlayQueuesRequest(g) == IsPlaying(g)

\* lines 261-342: after the defer, up to play_song's first await
PlayBody(g) ==
    \E t \in DOMAIN tasks :
      /\ t.kind = "play" /\ t.g = g
      /\ LET song == t.arg
             rest == tasks (-) One(t)
             pq1 == IF g \in DOMAIN priority_queues THEN priority_queues
                    ELSE Put(priority_queues, g, <<>>)
             mq1 == IF g \in DOMAIN music_queues THEN music_queues
                    ELSE Put(music_queues, g, <<>>)
         IN  IF PlayQueuesRequest(g)
             THEN /\ priority_queues' = Put(pq1, g, Append(pq1[g], song))
                  /\ music_queues' = mq1
                  /\ tasks' = rest
                  /\ UNCHANGED <<song_cache, song_stats, now_playing, pause_states,
                                 loop_modes, current_play_start, skip_in_progress,
                                 stop_in_progress, voice_client>>
             ELSE LET np1 == Put(now_playing, g, song)
                      want == IF Len(mq1[g]) < MinRegular
                              THEN RandomSongs(song_cache, mq1, pq1, np1, g,
                                               SongsToAdd(Len(mq1[g])))
                              ELSE {<<>>}
                  IN  \E picked \in want :
                        /\ now_playing' = np1
                        /\ priority_queues' = pq1
                        /\ music_queues' = ExtendQueue(mq1, g, picked)
                        /\ song_cache' = MarkDuration(MarkRandom(song_cache, picked), song)
                        /\ tasks' = rest (+) One(Task("play_song", g, song, "request"))
                        /\ UNCHANGED <<song_stats, pause_states, loop_modes,
                                       current_play_start, skip_in_progress,
                                       stop_in_progress, voice_client>>

(***************************************************************************)
(* play_song, from its last await before line 411 on.                      *)
(***************************************************************************)
\* tts_speak line 148 and VoiceClient.play: the TTS audio starts
TtsStarts(g) == IsConnected(g) /\ ~IsPlaying(g)
\* lines 426-433: voice_client.play(source, after=...) and what it raises
SongStarts(g) == IsConnected(g) /\ ~IsPlaying(g)
VcPlaySong(g, song) ==
    IF SongStarts(g)
    THEN Put(voice_client, g, [player |-> "song", track |-> song, paused |-> FALSE])
    ELSE voice_client

\* lines 411-433: the 'started' event, the announcement, and (when no
\* announcement plays) the track
PlaySong(g) ==
    \E t \in DOMAIN tasks :
      /\ t.kind = "play_song" /\ t.g = g
      /\ starts_left > 0 /\ starts_left' = starts_left - 1
      /\ UNCHANGED <<reply, cmds_left, moves_left, faults_left>>
      /\ current_play_start' = Put(current_play_start, g, TRUE)
      /\ song_stats' = UpdateSongStats(song_stats, t.arg, "started")
      /\ IF TtsStarts(g)
         THEN /\ voice_client' = Put(voice_client, g,
                                     [player |-> "tts", track |-> 0, paused |-> FALSE])
              /\ tasks' = (tasks (-) One(t)) (+) One(Task("play_song_tts", g, t.arg, t.why))
         ELSE /\ voice_client' = VcPlaySong(g, t.arg)
              /\ tasks' = tasks (-) One(t)
      /\ UNCHANGED <<song_cache, music_queues, priority_queues, now_playing, pause_states,
                     loop_modes, skip_in_progress, stop_in_progress>>

\* tts_speak lines 156-157 left, then lines 426-433
PlaySongAfterTts(g) ==
    \E t \in DOMAIN tasks :
      /\ t.g = g
      /\ \/ t.kind = "play_song_tts" /\ ~IsPlaying(g)
         \/ t.kind = "play_song_tts_old"
      /\ voice_client' = VcPlaySong(g, t.arg)
      /\ tasks' = tasks (-) One(t)
      /\ UNCHANGED <<song_cache, song_stats, cogVars>>

\* lines 425-433: FFmpegPCMAudio(...) or voice_client.play(...) raises; the
\* except branch logs and sends a message
PlaySongFails(g) ==
    \E t \in DOMAIN tasks :
      /\ t.g = g
      /\ \/ t.kind = "play_song_tts" /\ ~IsPlaying(g)
         \/ t.kind = "play_song_tts_old"
      /\ faults_left > 0 /\ faults_left' = faults_left - 1
      /\ tasks' = tasks (-) One(t)
      /\ UNCHANGED <<song_cache, song_stats, cogVars, voice_client, reply, cmds_left,
                     starts_left, moves_left, humans>>
      /\ AloneKept

(***************************************************************************)
(* The audio player thread of discord.py.                                  *)
(***************************************************************************)
\* the track's source is exhausted: the player ends and calls `after`
SongFinished(g) ==
    /\ IsPlaying(g) /\ voice_client[g].player = "song"
    /\ voice_client' = Put(voice_client, g, NoPlayer)
    /\ tasks' = tasks (+) One(Task("on_song_end", g, voice_client[g].track, "end"))
    /\ UNCHANGED <<song_cache, song_stats, cogVars>>

\* the announcement's source is exhausted (it has no `after`)
TtsFinished(g) ==
    /\ IsPlaying(g) /\ voice_client[g].player = "tts"
    /\ voice_client' = Put(voice_client, g, NoPlayer)
    /\ UNCHANGED <<song_cache, song_stats, cogVars, tasks>>

\* VoiceClient.disconnect(): stop(), then guild.voice_client is None
\* and a schedule_disconnect holding that object fails its final check
\* (is_connected(), line 1528) whatever it does until then: it is dropped
RetireCountdown(b, g) ==
    [t \in {u \in DOMAIN b : ~(u.g = g /\ u.kind = "countdown")} |-> b[t]]
\* VoiceClient.disconnect(), taken as one step: the player is stopped, the
\* guild loses its voice client, and the gateway then reports the bot's own
\* voice state (lines 1397-1419)
Disconnected(b, g, why) ==
    RetireCountdown(RetireTts(b (+) AfterStop(g, why), g), g) (+) One(Task("bot_left", g, 0, why))
\* lines 1397-1419: on_voice_state_update for the bot itself, after its awaits
BotLeft(g) ==
    \E t \in DOMAIN tasks :
      /\ t.g = g /\ t.kind = "bot_left"
      /\ tasks' = tasks (-) One(t)
      /\ now_playing' = Del(now_playing, g)
      /\ UNCHANGED <<song_cache, song_stats, music_queues, priority_queues, pause_states,
                     loop_modes, current_play_start, skip_in_progress, stop_in_progress,
                     voice_client>>

(***************************************************************************)
(* on_song_end: the completion callback, lines 435-570.                    *)
(***************************************************************************)
\* lines 451-456 and 480-485: the event a completion records
EndEvent(g) == IF Get(skip_in_progress, g, FALSE) THEN "skipped" ELSE "completed"
\* lines 442 and 471: a completion records only with both keys present
RecordsEnd(g) == g \in DOMAIN now_playing /\ g \in DOMAIN current_play_start
\* lines 470-485: the counters after the completion's record
StatsAfterEnd(g) ==
    IF RecordsEnd(g) THEN UpdateSongStats(song_stats, now_playing[g], EndEvent(g))
    ELSE song_stats
\* lines 487-490: the skip flag after the completion's record
SkipAfterEnd(g) == IF RecordsEnd(g) THEN Del(skip_in_progress, g) ELSE skip_in_progress
\* the test of line 499 with the loop mode ignored
LoopsNever(g) == FALSE
\* lines 499-502: loop mode 'single' replays the track
LoopsSingle(g) == Get(loop_modes, g, "off") = "single" /\ g \in DOMAIN now_playing
\* lines 508-516 without the append
QueueWithoutRequeue(g) == music_queues
\* lines 508-516: loop mode 'queue' puts the finished track back at the end
QueueAfterLoop(g) ==
    IF Get(loop_modes, g, "off") = "queue" /\ g \in DOMAIN now_playing
    THEN Put(music_queues, g, Append(Get(music_queues, g, <<>>), now_playing[g]))
    ELSE music_queues
\* the selection of lines 518-540 with the two queues exchanged
NextFromRegularFirst(pq, mq, g) ==
    IF g \in DOMAIN mq /\ mq[g] # <<>> THEN "regular"
    ELSE IF g \in DOMAIN pq /\ pq[g] # <<>> THEN "priority"
    ELSE "none"
\* lines 518-540: which queue the next track comes from
NextFrom(pq, mq, g) ==
    IF g \in DOMAIN pq /\ pq[g] # <<>> THEN "priority"
    ELSE IF g \in DOMAIN mq /\ mq[g] # <<>> THEN "regular"
    ELSE "none"
\* lines 521 and 529 reading the head without removing it
KeepFirst(q, g) == q
\* lines 521 and 529: pop(0)
PopFirst(q, g) == Put(q, g, Tail(q[g]))
\* lines 532-537: the background refill scheduled after a pop from the regular queue
RefillTask(mq, g) ==
    IF Len(Get(mq, g, <<>>)) < MinRegular
    THEN One(Task("add_random_songs", g, SongsToAdd(Len(Get(mq, g, <<>>))), ""))
    ELSE EmptyBag

\* lines 440-468: the bot is no longer connected
OnSongEndDisconnected(g, rest) ==
    /\ song_stats' = StatsAfterEnd(g)
    /\ current_play_start' = IF RecordsEnd(g) /\ EndEvent(g) = "skipped"
                             THEN Del(current_play_start, g) ELSE current_play_start
    /\ skip_in_progress' = IF RecordsEnd(g) /\ EndEvent(g) = "skipped"
                           THEN Del(skip_in_progress, g) ELSE skip_in_progress
    /\ now_playing' = Del(now_playing, g)
    /\ tasks' = rest
    /\ UNCHANGED <<song_cache, music_queues, priority_queues, pause_states, loop_modes,
                   stop_in_progress, voice_client>>

\* lines 492-497: a stop is in progress
OnSongEndStopped(g, rest) ==
    /\ stop_in_progress' = Del(stop_in_progress, g)
    /\ tasks' = rest
    /\ UNCHANGED <<song_cache, music_queues, priority_queues, now_playing, pause_states,
                   loop_modes, voice_client>>

\* lines 499-570: the next track
OnSongEndAdvance(g, rest) ==
    IF LoopsSingle(g)
    THEN /\ song_cache' = MarkDuration(song_cache, now_playing[g])
         /\ tasks' = rest (+) One(Task("play_song", g, now_playing[g], "loop"))
         /\ UNCHANGED <<music_queues, priority_queues, now_playing>>
    ELSE LET mq1 == QueueAfterLoop(g)
             from == NextFrom(priority_queues, mq1, g)
         IN  CASE from = "priority" ->
                    /\ now_playing' = Put(now_playing, g, Head(priority_queues[g]))
                    /\ priority_queues' = PopFirst(priority_queues, g)
                    /\ music_queues' = mq1
                    /\ song_cache' = MarkDuration(song_cache, Head(priority_queues[g]))
                    /\ tasks' = rest (+) One(Task("play_song", g, Head(priority_queues[g]), "priority"))
               [] from = "regular" ->
                    /\ now_playing' = Put(now_playing, g, Head(mq1[g]))
                    /\ music_queues' = PopFirst(mq1, g)
                    /\ song_cache' = MarkDuration(song_cache, Head(mq1[g]))
                    /\ tasks' = (rest (+) RefillTask(PopFirst(mq1, g), g))
                                (+) One(Task("play_song", g, Head(mq1[g]), "regular"))
                    /\ UNCHANGED priority_queues
               [] OTHER ->
                    \E picked \in RandomSongs(song_cache, mq1, priority_queues,
                                              now_playing, g, MinRegular) :
                      LET mq2 == ExtendQueue(mq1, g, picked) IN
                      IF NextFrom(EmptyDict, mq2, g) = "regular"
                      THEN /\ now_playing' = Put(now_playing, g, Head(mq2[g]))
                           /\ music_queues' = PopFirst(mq2, g)
                           /\ song_cache' = MarkDuration(MarkRandom(song_cache, picked),
                                                         Head(mq2[g]))
                           /\ tasks' = rest (+) One(Task("play_song", g, Head(mq2[g]), "refilled"))
                           /\ UNCHANGED priority_queues
                      ELSE /\ now_playing' = Del(now_playing, g)
                           /\ music_queues' = mq2
                           /\ tasks' = rest (+) One(Task("on_song_end_sleep", g, 0, ""))
                           /\ UNCHANGED <<song_cache, priority_queues>>

OnSongEnd(g) ==
    \E t \in DOMAIN tasks :
      /\ t.kind = "on_song_end" /\ t.g = g
      /\ LET rest == tasks (-) One(t) IN
         IF ~IsConnected(g)
         THEN OnSongEndDisconnected(g, rest)
         ELSE /\ song_stats' = StatsAfterEnd(g)
              /\ current_play_start' = IF RecordsEnd(g) THEN Del(current_play_start, g)
                                       ELSE current_play_start
              /\ skip_in_progress' = SkipAfterEnd(g)
              /\ IF Get(stop_in_progress, g, FALSE)
                 THEN OnSongEndStopped(g, rest) /\ UNCHANGED song_cache
                 ELSE OnSongEndAdvance(g, rest)
                      /\ UNCHANGED <<pause_states, loop_modes, stop_in_progress, voice_client>>

\* lines 563-566 with the disconnect issued whether or not a connection is left
OnSongEndDisconnectUnchecked(g) ==
    \E t \in DOMAIN tasks :
      /\ t.kind = "on_song_end_sleep" /\ t.g = g
      /\ voice_client' = Del(voice_client, g)
      /\ tasks' = Disconnected(tasks (-) One(t), g, "disconnect")
      /\ UNCHANGED <<song_cache, song_stats, cogVars>>
\* lines 563-566: after the one-second sleep, guild.voice_client.disconnect()
OnSongEndDisconnect(g) ==
    \E t \in DOMAIN tasks :
      /\ t.kind = "on_song_end_sleep" /\ t.g = g
      /\ IF IsConnected(g)
         THEN /\ voice_client' = Del(voice_client, g)
              /\ tasks' = Disconnected(tasks (-) One(t), g, "disconnect")
         ELSE /\ tasks' = tasks (-) One(t)
              /\ UNCHANGED voice_client
      /\ UNCHANGED <<song_cache, song_stats, cogVars>>

(***************************************************************************)
(* add_random_songs run as a task of its own (asyncio.create_task).        *)
(***************************************************************************)
AddRandomSongs(g) ==
    \E t \in DOMAIN tasks :
      /\ t.kind = "add_random_songs" /\ t.g = g
      /\ \E picked \in RandomSongs(song_cache, music_queues, priority_queues,
                                   now_playing, g, t.arg) :
           /\ music_queues' = ExtendQueue(music_queues, g, picked)
           /\ song_cache' = MarkRandom(song_cache, picked)
      /\ tasks' = tasks (-) One(t)
      /\ UNCHANGED <<song_stats, priority_queues, now_playing, pause_states, loop_modes,
                     current_play_start, skip_in_progress, stop_in_progress, voice_client>>

(***************************************************************************)
(* /skip (lines 1753-1781) and the queue view's skip button (997-1024).    *)
(***************************************************************************)
\* the checks of lines 1759-1765 without the is_playing() test
SkipAcceptedWhenConnected(g) == IsConnected(g)
\* lines 1759-1765 and 999-1005: the request is accepted
SkipAccepted(g) == IsConnected(g) /\ IsPlaying(g)
\* lines 1759-1765 and 999-1005: the answer of a request that is turned down
SkipRejection(g) ==
    IF IsConnected(g) THEN "No song is currently playing."
    ELSE "I'm not currently playing music."
SkipRequest(g, done) ==
    IF SkipAccepted(g)
    THEN /\ Replying(done)
         /\ skip_in_progress' = Put(skip_in_progress, g, TRUE)
         /\ voice_client' = Put(voice_client, g, NoPlayer)
         /\ tasks' = (tasks (+) AfterStop(g, "skip")) (+) RefillTask(music_queues, g)
         /\ UNCHANGED <<song_cache, song_stats, music_queues, priority_queues, now_playing,
                        pause_states, loop_modes, current_play_start, stop_in_progress>>
    ELSE /\ Replying(SkipRejection(g))
         /\ UNCHANGED <<song_cache, song_stats, cogVars, voice_client, tasks>>
\* /skip, lines 1753-1781
Skip(g) == SkipRequest(g, "Skipped current song!")
\* the 'skip' button, lines 997-1024 (an accepted press redraws the queue message)
SkipButton(g) == IsConnected(g) /\ SkipRequest(g, "")

(***************************************************************************)
(* The queue view's buttons (handle_queue_button).  Line 990 reads         *)
(* guild.voice_client.channel, so a button acts only on a connected guild. *)
(***************************************************************************)
\* lines 1030-1043 and 1130-1143: stop and clear drop the play start of the current track
PlayStartDropped(g) ==
    IF RecordsEnd(g) THEN Del(current_play_start, g) ELSE current_play_start

\* 'stop', lines 1026-1060: the flag, the queues, now playing
StopButton(g) ==
    /\ IsConnected(g)
    /\ Command
    /\ stop_in_progress' = Put(stop_in_progress, g, TRUE)
    /\ current_play_start' = PlayStartDropped(g)
    /\ priority_queues' = Del(priority_queues, g)
    /\ music_queues' = Del(music_queues, g)
    /\ now_playing' = Del(now_playing, g)
    /\ tasks' = tasks (+) One(Task("stop_cleared", g, 0, ""))
    /\ UNCHANGED <<song_cache, song_stats, pause_states, loop_modes, skip_in_progress,
                   voice_client>>

\* 'stop', lines 1062-1066: the transport is stopped, then the handler sleeps 0.5 s
StopTransport(g) ==
    \E t \in DOMAIN tasks :
      /\ t.kind = "stop_cleared" /\ t.g = g
      /\ IF IsConnected(g)
         THEN /\ voice_client' = IF IsPlaying(g) THEN Put(voice_client, g, NoPlayer)
                                 ELSE voice_client
              /\ tasks' = ((tasks (-) One(t))
                           (+) (IF IsPlaying(g) THEN AfterStop(g, "stop") ELSE EmptyBag))
                          (+) One(Task("stop_sleep", g, 0, ""))
         ELSE /\ tasks' = (tasks (-) One(t)) (+) One(Task("stop_done", g, 0, ""))
              /\ UNCHANGED voice_client
      /\ UNCHANGED <<song_cache, song_stats, cogVars>>

\* 'stop', line 1067: guild.voice_client.disconnect(); it raises when the client is None
StopDisconnect(g) ==
    \E t \in DOMAIN tasks :
      /\ t.kind = "stop_sleep" /\ t.g = g
      /\ IF IsConnected(g)
         THEN /\ voice_client' = Del(voice_client, g)
              /\ tasks' = Disconnected(tasks (-) One(t), g, "stop")
                          (+) One(Task("stop_done", g, 0, ""))
         ELSE /\ tasks' = tasks (-) One(t)
              /\ UNCHANGED voice_client
      /\ UNCHANGED <<song_cache, song_stats, cogVars>>

\* 'stop', lines 1072-1074: the handler clears the stop flag
StopDone(g) ==
    \E t \in DOMAIN tasks :
      /\ t.kind = "stop_done" /\ t.g = g
      /\ stop_in_progress' = Del(stop_in_progress, g)
      /\ tasks' = tasks (-) One(t)
      /\ UNCHANGED <<song_cache, song_stats, music_queues, priority_queues, now_playing,
                     pause_states, loop_modes, current_play_start, skip_in_progress,
                     voice_client>>

\* 'pause' without its resume branch (lines 1107-1111)
PauseButtonNeverResumes(g) ==
    /\ IsConnected(g)
    /\ Command
    /\ IF IsPlaying(g)
       THEN /\ voice_client' = Put(voice_client, g, [voice_client[g] EXCEPT !.paused = TRUE])
            /\ pause_states' = Put(pause_states, g, TRUE)
       ELSE UNCHANGED <<voice_client, pause_states>>
    /\ UNCHANGED <<song_cache, song_stats, music_queues, priority_queues, now_playing,
                   loop_modes, current_play_start, skip_in_progress, stop_in_progress, tasks>>

\* 'pause', lines 1099-1115
PauseButton(g) ==
    /\ IsConnected(g)
    /\ Command
    /\ IF IsPlaying(g)
       THEN /\ voice_client' = Put(voice_client, g, [voice_client[g] EXCEPT !.paused = TRUE])
            /\ pause_states' = Put(pause_states, g, TRUE)
       ELSE IF IsPaused(g)
       THEN /\ voice_client' = Put(voice_client, g, [voice_client[g] EXCEPT !.paused = FALSE])
            /\ pause_states' = Put(pause_states, g, FALSE)
       ELSE UNCHANGED <<voice_client, pause_states>>
    /\ UNCHANGED <<song_cache, song_stats, music_queues, priority_queues, now_playing,
                   loop_modes, current_play_start, skip_in_progress, stop_in_progress, tasks>>

\* 'loop' with the step from 'single' going back to 'off'
NextLoopModeSkipsQueue(mode) == IF mode = "off" THEN "single" ELSE "off"
\* 'loop', lines 1117-1125
NextLoopMode(mode) ==
    CASE mode = "off" -> "single"
      [] mode = "single" -> "queue"
      [] mode = "queue" -> "off"
      [] OTHER -> mode
LoopButton(g) ==
    /\ IsConnected(g)
    /\ Command
    /\ loop_modes' = Put(loop_modes, g, NextLoopMode(Get(loop_modes, g, "off")))
    /\ UNCHANGED <<song_cache, song_stats, music_queues, priority_queues, now_playing,
                   pause_states, current_play_start, skip_in_progress, stop_in_progress,
                   voice_client, tasks>>

\* 'clear', lines 1129-1160
ClearButton(g) ==
    /\ IsConnected(g)
    /\ Command
    /\ current_play_start' = PlayStartDropped(g)
    /\ LET pq1 == IF g \in DOMAIN priority_queues THEN Put(priority_queues, g, <<>>)
                  ELSE priority_queues
           mq1 == IF g \in DOMAIN music_queues THEN Put(music_queues, g, <<>>)
                  ELSE music_queues
           want == IF g \in DOMAIN priority_queues \/ g \in DOMAIN music_queues
                   THEN RandomSongs(song_cache, mq1, pq1, now_playing, g, MinRegular)
                   ELSE {<<>>}
       IN  \E picked \in want :
             /\ priority_queues' = pq1
             /\ music_queues' = ExtendQueue(mq1, g, picked)
             /\ song_cache' = MarkRandom(song_cache, picked)
    /\ UNCHANGED <<song_stats, now_playing, pause_states, loop_modes, skip_in_progress,
                   stop_in_progress, voice_client, tasks>>

(***************************************************************************)
(* The "Play Again" button (handle_play_again_button).                     *)
(***************************************************************************)
\* lines 1689-1726: the checks, the connect, up to the defer
PlayAgainButton(g) ==
    /\ Command
    /\ voice_client' = IF IsConnected(g) THEN voice_client ELSE Put(voice_client, g, NoPlayer)
    /\ tasks' = tasks (+) One(Task("play_again", g, 0, ""))
    /\ UNCHANGED <<song_cache, song_stats, cogVars>>

\* lines 1728-1751: refill, pop the first track, up to play_song's first await
PlayAgainBody(g) ==
    \E t \in DOMAIN tasks :
      /\ t.kind = "play_again" /\ t.g = g
      /\ \E p1 \in RandomSongs(song_cache, music_queues, priority_queues, now_playing,
                               g, MinRegular) :
           LET mq1 == ExtendQueue(music_queues, g, p1)
               n1 == Len(Get(mq1, g, <<>>))
               want == IF n1 < MinRegular
                       THEN RandomSongs(song_cache, mq1, priority_queues, now_playing,
                                        g, SongsToAdd(n1))
                       ELSE {<<>>}
           IN  \E p2 \in want :
                 LET mq2 == ExtendQueue(mq1, g, p2) IN
                 IF NextFrom(EmptyDict, mq2, g) = "regular"
                 THEN /\ now_playing' = Put(now_playing, g, Head(mq2[g]))
                      /\ music_queues' = PopFirst(mq2, g)
                      /\ song_cache' = MarkDuration(MarkRandom(song_cache, p1 \o p2),
                                                    Head(mq2[g]))
                      /\ tasks' = (tasks (-) One(t))
                                  (+) One(Task("play_song", g, Head(mq2[g]), "again"))
                 ELSE /\ music_queues' = mq2
                      /\ tasks' = tasks (-) One(t)
                      /\ UNCHANGED <<song_cache, now_playing>>
      /\ UNCHANGED <<song_stats, priority_queues, pause_states, loop_modes,
                     current_play_start, skip_in_progress, stop_in_progress, voice_client>>

(***************************************************************************)
(* on_voice_state_update (lines 1391-1486) and schedule_disconnect         *)
(* (lines 1513-1551): the bot alone in its channel.                        *)
(***************************************************************************)
\* ALONE_TIMEOUT // update_interval (lines 55 and 1518): the sleeps of a countdown
AloneTicks == 2
\* line 1443: asyncio.get_event_loop().time(), read off the moves still to come
Now == <<"t0", "t1", "t2", "t3", "t4", "t5">>[moves_left + 1]
\* a member who is not a bot leaves the channel; the gateway event is dispatched
HumanLeaves(g) ==
    /\ humans[g] > 0 /\ moves_left > 0
    /\ humans' = [humans EXCEPT ![g] = @ - 1]
    /\ moves_left' = moves_left - 1
    /\ tasks' = tasks (+) One(Task("voice_state_update", g, 0, ""))
    /\ UNCHANGED <<song_cache, song_stats, cogVars, voice_client, alone_since, reply,
                   cmds_left, starts_left, faults_left>>
\* a member who is not a bot joins the channel
HumanJoins(g) ==
    /\ humans[g] = 0 /\ moves_left > 0
    /\ humans' = [humans EXCEPT ![g] = @ + 1]
    /\ moves_left' = moves_left - 1
    /\ tasks' = tasks (+) One(Task("voice_state_update", g, 0, ""))
    /\ UNCHANGED <<song_cache, song_stats, cogVars, voice_client, alone_since, reply,
                   cmds_left, starts_left, faults_left>>

\* a second member who is not a bot joins the channel while one is there
AnotherHumanJoins(g) ==
    /\ humans[g] = 1 /\ moves_left > 0
    /\ humans' = [humans EXCEPT ![g] = @ + 1]
    /\ moves_left' = moves_left - 1
    /\ tasks' = tasks (+) One(Task("voice_state_update", g, 0, ""))
    /\ UNCHANGED <<song_cache, song_stats, cogVars, voice_client, alone_since, reply,
                   cmds_left, starts_left, faults_left>>

\* lines 1464-1466 without the delattr
AloneKeptOnReturn(g) == alone_since
\* lines 1464-1466: the alone timer is reset
AloneAfterReturn(g) == Del(alone_since, g)

\* lines 1421-1466: the handler of a member's join or leave, up to its first await
OnVoiceStateUpdate(g) ==
    \E t \in DOMAIN tasks :
      /\ t.kind = "voice_state_update" /\ t.g = g
      /\ IF ~IsConnected(g)
         THEN /\ tasks' = tasks (-) One(t)
              /\ UNCHANGED <<voice_client, alone_since>>
         ELSE IF humans[g] = 0
         THEN /\ voice_client' = IF IsPlaying(g)
                                 THEN Put(voice_client, g, [voice_client[g] EXCEPT !.paused = TRUE])
                                 ELSE voice_client
              /\ IF g \notin DOMAIN alone_since
                 THEN /\ alone_since' = Put(alone_since, g, Now)
                      /\ tasks' = (tasks (-) One(t))
                                  (+) One(Task("countdown", g, AloneTicks, Now))
                 ELSE /\ tasks' = tasks (-) One(t)
                      /\ UNCHANGED alone_since
         ELSE /\ voice_client' = IF IsPaused(g)
                                 THEN Put(voice_client, g, [voice_client[g] EXCEPT !.paused = FALSE])
                                 ELSE voice_client
              /\ alone_since' = AloneAfterReturn(g)
              /\ tasks' = tasks (-) One(t)
      /\ UNCHANGED <<song_cache, song_stats, cogVars, humans, reply, budget>>

\* lines 1520-1525: one round of the countdown's loop, from its test to the end
\* of its sleep
CountdownTick(g) ==
    \E t \in DOMAIN tasks :
      /\ t.kind = "countdown" /\ t.g = g /\ t.arg > 0
      /\ tasks' = IF g \in DOMAIN alone_since
                  THEN (tasks (-) One(t)) (+) One([t EXCEPT !.arg = @ - 1])
                  ELSE tasks (-) One(t)
      /\ UNCHANGED <<song_cache, song_stats, cogVars, voice_client, humans, alone_since,
                     reply, budget>>

\* line 1527-1529: the final check of the countdown
StillAlone(g) == g \in DOMAIN alone_since /\ IsConnected(g) /\ humans[g] = 0
\* lines 1527-1540: the final check and voice_client.disconnect()
CountdownExpires(g) ==
    \E t \in DOMAIN tasks :
      /\ t.kind = "countdown" /\ t.g = g /\ t.arg = 0
      /\ IF StillAlone(g)
         THEN /\ voice_client' = Del(voice_client, g)
              /\ tasks' = Disconnected(tasks (-) One(t), g, "alone")
                          (+) One(Task("countdown_done", g, 0, ""))
         ELSE /\ tasks' = tasks (-) One(t)
              /\ UNCHANGED voice_client
      /\ AloneKept
      /\ UNCHANGED <<song_cache, song_stats, cogVars, humans, reply, budget>>

\* lines 1543-1548: after the awaits, the countdown deletes now_playing
CountdownDone(g) ==
    \E t \in DOMAIN tasks :
      /\ t.kind = "countdown_done" /\ t.g = g
      /\ tasks' = tasks (-) One(t)
      /\ now_playing' = Del(now_playing, g)
      /\ UNCHANGED <<song_cache, song_stats, music_queues, priority_queues, pause_states,
                     loop_modes, current_play_start, skip_in_progress, stop_in_progress,
                     voice_client, humans, alone_since, reply, budget>>

GuildNext(g) ==
    \/ \E song \in DOMAIN song_cache : Play(g, song) /\ ByUser(g)
    \/ PlayBody(g) /\ Internal
    \/ PlaySong(g) /\ UNCHANGED humans /\ AloneKept
    \/ PlaySongAfterTts(g) /\ Internal
    \/ SongFinished(g) /\ Internal
    \/ TtsFinished(g) /\ Internal
    \/ OnSongEnd(g) /\ Internal
    \/ OnSongEndDisconnect(g) /\ Internal
    \/ BotLeft(g) /\ Internal
    \/ AddRandomSongs(g) /\ Internal
    \/ Skip(g) /\ ByUser(g)
    \/ SkipButton(g) /\ ByUser(g)
    \/ StopButton(g) /\ ByUser(g)
    \/ StopTransport(g) /\ Internal
    \/ StopDisconnect(g) /\ Internal
    \/ StopDone(g) /\ Internal
    \/ PauseButton(g) /\ ByUser(g)
    \/ LoopButton(g) /\ ByUser(g)
    \/ ClearButton(g) /\ ByUser(g)
    \/ PlayAgainButton(g) /\ ByUser(g)
    \/ PlayAgainBody(g) /\ Internal

Next == GuildNext("g1")

Spec == Init /\ [][Next]_vars

(***************************************************************************)
(* The queues alone: play requests, skips, completions and refills over a  *)
(* catalog of QueueSongs tracks.                                           *)
(***************************************************************************)
InitQueue == InitWith({QueueSongs}, QueueStarts, QueueCmds)

QueueNext(g) ==
    \/ \E song \in DOMAIN song_cache : Play(g, song) /\ ByUser(g)
    \/ PlayBody(g) /\ Internal
    \/ PlaySong(g) /\ UNCHANGED humans /\ AloneKept
    \/ PlaySongAfterTts(g) /\ Internal
    \/ SongFinished(g) /\ Internal
    \/ TtsFinished(g) /\ Internal
    \/ OnSongEnd(g) /\ Internal
    \/ AddRandomSongs(g) /\ Internal
    \/ Skip(g) /\ ByUser(g)

NextQueue == QueueNext("g1")

SpecQueue == InitQueue /\ [][NextQueue]_vars


(***************************************************************************)
(* The loop modes: play requests, the loop button and completions over a   *)
(* catalog of LoopSongs tracks.                                            *)
(***************************************************************************)
InitLoop == InitWith({LoopSongs}, LoopStarts, LoopCmds)

LoopNext(g) ==
    \/ \E song \in DOMAIN song_cache : Play(g, song) /\ ByUser(g)
    \/ PlayBody(g) /\ Internal
    \/ PlaySong(g) /\ UNCHANGED humans /\ AloneKept
    \/ PlaySongAfterTts(g) /\ Internal
    \/ SongFinished(g) /\ Internal
    \/ TtsFinished(g) /\ Internal
    \/ OnSongEnd(g) /\ Internal
    \/ AddRandomSongs(g) /\ Internal
    \/ LoopButton(g) /\ ByUser(g)

NextLoop == LoopNext("g1")

SpecLoop == InitLoop /\ [][NextLoop]_vars
(***************************************************************************)
(* Properties.                                                             *)
(***************************************************************************)
G1 == "g1"
Regular(g) == Get(music_queues, g, <<>>)
Priority(g) == Get(priority_queues, g, <<>>)
LoopMode(g) == Get(loop_modes, g, "off")
IsPrefix(a, b) == Len(a) <= Len(b) /\ SubSeq(b, 1, Len(a)) = a
Suffix(a, b) == SubSeq(b, Len(a) + 1, Len(b))
Distinct(seq) == \A i, j \in 1..Len(seq) : i # j => seq[i] # seq[j]
\* a completion callback that goes on to select the next track
Advances(g) == IsConnected(g) /\ ~Get(stop_in_progress, g, FALSE)
\* a track is on the transport of g, playing or paused
OnTransport(g) == IsConnected(g) /\ voice_client[g].player = "song"
Started(song) == Get(song_stats, song, NoStats).started
Completed(song) == Get(song_stats, song, NoStats).completed
Skipped(song) == Get(song_stats, song, NoStats).skipped

\* C1: in loop mode Off a completion callback that advances takes the head of
\* the priority queue when that queue is non-empty, and the head of the
\* regular queue only when the priority queue is empty; every step changes a
\* queue only by taking its head or by appending at its tail (FIFO).
C1_TakesHead ==
    (OnSongEnd(G1) /\ Advances(G1) /\ LoopMode(G1) = "off") =>
       /\ Priority(G1) # <<>> =>
            /\ now_playing'[G1] = Head(Priority(G1))
            /\ Priority(G1)' = Tail(Priority(G1))
            /\ Regular(G1)' = Regular(G1)
       /\ (Priority(G1) = <<>> /\ Regular(G1) # <<>>) =>
            /\ now_playing'[G1] = Head(Regular(G1))
            /\ Regular(G1)' = Tail(Regular(G1))
            /\ Priority(G1)' = <<>>
C1_Fifo ==
    /\ \/ IsPrefix(Priority(G1), Priority(G1)')
       \/ Priority(G1) # <<>> /\ Priority(G1)' = Tail(Priority(G1))
    /\ \/ IsPrefix(Regular(G1), Regular(G1)')
       \/ Regular(G1) # <<>> /\ Regular(G1)' = Tail(Regular(G1))
C1_PriorityBeforeRegular == [][C1_TakesHead /\ C1_Fifo]_vars
\* a track taken from the priority queue is starting while tracks that were
\* queued before its request still wait in the regular queue
C1_Witness ==
    /\ G1 \in DOMAIN now_playing
    /\ Len(Regular(G1)) >= 2
    /\ \E t \in DOMAIN tasks :
         t.kind = "play_song_tts" /\ t.why = "priority" /\ t.arg = now_playing[G1]

\* the ids a call of add_random_songs has to leave out, np being the
\* now-playing map at the moment of the call
Used(g, np) ==
    Range(Regular(g)) \cup Range(Priority(g))
      \cup (IF g \in DOMAIN np THEN {np[g]} ELSE {})
\* this step's call, asked for min_count tracks, appended to the regular queue
\* exactly min(min_count, free) distinct tracks, none of them used
AddsOnlyNew(g, np, min_count) ==
    LET added == Suffix(Regular(g), Regular(g)')
        free == DOMAIN song_cache \ Used(g, np)
    IN  /\ IsPrefix(Regular(g), Regular(g)')
        /\ Range(added) \subseteq free
        /\ Distinct(added)
        /\ Len(added) <= min_count
        /\ Len(added) = Min(min_count, Cardinality(free))

\* C2: every call of add_random_songs(g, min_count), the background refill
\* as well as the call inside /play, appends to the regular queue only
\* tracks that at the moment of the call are neither now playing nor in
\* either queue, all distinct, at most min_count of them and exactly
\* min(min_count, number of such tracks).
C2_Step ==
    \A t \in DOMAIN tasks :
      /\ (t.kind = "add_random_songs" /\ tasks' = tasks (-) One(t))
           => AddsOnlyNew(G1, now_playing, t.arg)
      /\ (/\ t.kind = "play"
          /\ tasks' = (tasks (-) One(t)) (+) One(Task("play_song", G1, t.arg, "request"))
          /\ Len(Regular(G1)) < MinRegular)
           => AddsOnlyNew(G1, now_playing', MinRegular - Len(Regular(G1)))
C2_AddRandomSongsAddsOnlyNew == [][C2_Step]_vars
\* a call has filled the regular queue with random tracks and another one,
\* short of eligible tracks, has added fewer than it was asked for
C2_Witness ==
    /\ G1 \in DOMAIN now_playing
    /\ Len(Regular(G1)) = 2
    /\ \A i \in 1..2 : song_cache[Regular(G1)[i]].is_random
    /\ Priority(G1) # <<>>
    /\ DOMAIN song_cache \ Used(G1, now_playing) = {}
    /\ \A t \in DOMAIN tasks : t.kind # "add_random_songs"

\* the tracks a replenishment of g could draw now
Eligible(g) == DOMAIN song_cache \ Used(g, now_playing)
\* something is still to run that can lengthen the regular queue of g
RefillPending(g) ==
    \E t \in DOMAIN tasks :
      t.g = g /\ t.kind \in {"add_random_songs", "play", "on_song_end", "play_again"}

\* the regular queue of g is short although its own tracks and the tracks a
\* replenishment could draw would bring it to MinRegular
ShortButFillable(g) ==
    /\ IsConnected(g)
    /\ Len(Regular(g)) < MinRegular
    /\ Len(Regular(g)) + Cardinality(Eligible(g)) >= MinRegular
\* every handler and every replenishment has run, and a track is on the
\* transport: nothing changes the queues before that track ends
AtRest(g) == tasks = EmptyBag /\ OnTransport(g)
\* the queues alone again, with the event loop running every task that is
\* ready and every announcement coming to its end; when a track ends is up
\* to the track and to the users
InitRefill == InitWith({QueueSongs}, RefillStarts, RefillCmds)
SpecRefill ==
    /\ InitRefill /\ [][NextQueue]_vars
    /\ WF_vars(AddRandomSongs(G1) /\ Internal)
    /\ WF_vars(PlayBody(G1) /\ Internal)
    /\ WF_vars(OnSongEnd(G1) /\ Internal)
    /\ WF_vars(PlaySong(G1) /\ UNCHANGED humans /\ AloneKept)
    /\ WF_vars(PlaySongAfterTts(G1) /\ Internal)
    /\ WF_vars(TtsFinished(G1) /\ Internal)

Completion(g, t) ==
    /\ t.kind = "on_song_end" /\ t.g = g
    /\ OnSongEnd(g)
    /\ CopiesIn(t, tasks') = CopiesIn(t, tasks) - 1
\* this step added exactly one completion callback for g
OneMoreCompletion(g) ==
    NumTasks(g, {"on_song_end"})' = NumTasks(g, {"on_song_end"}) + 1

\* C4: the completion callback forced by an accepted skip, running on a
\* connected guild with no stop in progress, records exactly one 'skipped'
\* event and no 'completed' event for the skipped track, and clears the skip
\* flag.
C4_Step ==
    \A t \in DOMAIN tasks :
      (Completion(G1, t) /\ t.why = "skip" /\ Advances(G1)) =>
         /\ Skipped(t.arg)' = Skipped(t.arg) + 1
         /\ Completed(t.arg)' = Completed(t.arg)
         /\ G1 \notin DOMAIN skip_in_progress'
C4_SkipRecordedOnce == [][C4_Step]_vars

\* C5: with loop mode Single, on a connected guild with no stop in progress,
\* every completion callback of the playing track leaves the now-playing
\* track and both queues unchanged and starts that same track again; so do
\* N such callbacks in a row, for every N.
C5_Step ==
    (/\ OnSongEnd(G1) /\ Advances(G1)
     /\ LoopMode(G1) = "single" /\ G1 \in DOMAIN now_playing) =>
       /\ UNCHANGED <<now_playing, music_queues, priority_queues>>
       /\ CopiesIn(Task("play_song", G1, now_playing[G1], "loop"), tasks')
            = CopiesIn(Task("play_song", G1, now_playing[G1], "loop"), tasks) + 1
C5_LoopSingleRepeats == [][C5_Step]_vars
\* the track has completed twice in loop mode Single and is starting again
C5_Witness ==
    /\ LoopMode(G1) = "single"
    /\ G1 \in DOMAIN now_playing
    /\ Completed(now_playing[G1]) >= 2
    /\ Task("play_song", G1, now_playing[G1], "loop") \in DOMAIN tasks

\* C6 as written: with loop mode Queue, after a completion callback the
\* finished track is at the tail of the regular queue and the track that was
\* at the head of the regular queue is now playing.
C6_Body ==
    /\ Regular(G1)' # <<>>
    /\ Regular(G1)'[Len(Regular(G1)')] = now_playing[G1]
    /\ now_playing'[G1] = Head(Regular(G1))
C6_Case ==
    /\ OnSongEnd(G1) /\ Advances(G1)
    /\ LoopMode(G1) = "queue" /\ G1 \in DOMAIN now_playing
    /\ Regular(G1) # <<>>
C6_Step ==
    C6_Case =>
      /\ Priority(G1) = <<>> => C6_Body
      /\ Priority(G1) # <<>> =>
           /\ Regular(G1)' = Append(Regular(G1), now_playing[G1])
           /\ now_playing'[G1] = Head(Priority(G1))
C7_Step ==
    \A t \in DOMAIN tasks :
      (/\ t.kind = "play" /\ t.g = G1
       /\ PlayBody(G1)
       /\ CopiesIn(t, tasks') = CopiesIn(t, tasks) - 1
       /\ OnTransport(G1)) =>
         /\ Priority(G1)' = Append(Priority(G1), t.arg)
         /\ UNCHANGED <<now_playing, voice_client>>
C7_PlayNeverPreempts == [][C7_Step]_vars

\* the guild after a stop: no queues, nothing playing, no connection
Stopped(g) ==
    /\ Regular(g) = <<>>
    /\ Priority(g) = <<>>
    /\ g \notin DOMAIN now_playing
    /\ ~IsConnected(g)
\* C8: when a stop request finishes and has left the guild without a voice
\* connection, the guild has no priority entries, no regular entries and no
\* now-playing track either, whatever ran between the handler's steps.
C8_StoppedWhenDone == [][(StopDone(G1) /\ ~IsConnected(G1)') => Stopped(G1)']_vars

\* C9: a skip request made while a track is on the transport, playing or
\* paused, sets the skip flag and stops the transport, which calls exactly
\* one completion callback.
C9_Step ==
    ((Skip(G1) \/ SkipButton(G1)) /\ OnTransport(G1)) =>
       /\ Get(skip_in_progress', G1, FALSE)
       /\ voice_client'[G1].player = "none"
       /\ OneMoreCompletion(G1)
C9_SkipAcceptedWhenPaused == [][C9_Step]_vars

\* no voice connection, or nothing on the transport
Idle(g) == ~IsConnected(g) \/ voice_client[g].player = "none"
\* C10: a skip request made while the guild is Idle is turned down and
\* changes no per-guild state.
C10_Step ==
    ((Skip(G1) \/ SkipButton(G1)) /\ Idle(G1)) =>
       /\ reply' \in {"No song is currently playing.", "I'm not currently playing music."}
       /\ UNCHANGED <<now_playing, music_queues, priority_queues, loop_modes,
                      pause_states, skip_in_progress, stop_in_progress,
                      current_play_start, voice_client, tasks, song_stats>>
C10_IdleSkipRejected == [][C10_Step]_vars
\* a skip has just been turned down on a connected guild with a current
\* track and nothing on the transport
C10_Witness ==
    /\ reply = "No song is currently playing."
    /\ Idle(G1) /\ IsConnected(G1)
    /\ G1 \in DOMAIN now_playing

(***************************************************************************)
(* The guard flags.                                                        *)
(***************************************************************************)
GuardCleared(g) ==
    \/ g \in DOMAIN skip_in_progress /\ g \notin DOMAIN skip_in_progress'
    \/ g \in DOMAIN stop_in_progress /\ g \notin DOMAIN stop_in_progress'

\* C16: a step that removes the skip flag or the stop flag of a guild is a
\* step of the completion callback on_song_end; no step of a skip or stop
\* request handler removes either flag.
C16_GuardsClearedByCallback == [][GuardCleared(G1) => OnSongEnd(G1)]_vars

\* the call sites of play_song inside on_song_end (lines 516, 524, 539, 548)
CallbackWhys == {"loop", "priority", "regular", "refilled"}
\* the step hands a track to VoiceClient.play and the player starts
TrackStarts(g) ==
    /\ voice_client' # voice_client
    /\ g \in DOMAIN voice_client' /\ voice_client'[g].player = "song"
\* the stop handler has stopped the transport and sleeps at line 1066
StopSleeping(g) == NumTasks(g, {"stop_sleep"}) > 0

\* C17: while the stop flag of a guild is set and its stop handler has stopped
\* the transport, a play_song that the completion callback started before the
\* stop (and that was waiting for its announcement) does not start its track.
C17_Step ==
    \A t \in DOMAIN tasks :
      (/\ t.g = G1 /\ t.kind \in {"play_song_tts", "play_song_tts_old"}
       /\ t.why \in CallbackWhys
       /\ tasks' = tasks (-) One(t)
       /\ Get(stop_in_progress, G1, FALSE) /\ StopSleeping(G1))
      => ~TrackStarts(G1)
C17_NoStartAfterStop == [][C17_Step]_vars

\* an execution of play_song between its line 411 and its voice_client.play
PlaySongKinds == {"play_song", "play_song_tts", "play_song_tts_old"}

\* C19: at any time at most one execution of play_song is under way for a
\* guild: two executions, whoever started them, never overlap.
C19_OnePlaySongAtATime == NumTasks(G1, PlaySongKinds) <= 1

(***************************************************************************)
(* now_playing against the voice connection.                               *)
(***************************************************************************)
\* no handler, callback or timer of the guild is under way or pending
Quiet(g) == \A t \in DOMAIN tasks : t.g # g
\* the transport plays, or holds paused, the audio of a track
TrackOnTransport(g) == IsConnected(g) /\ voice_client[g].player = "song"

\* C14: whenever no handler of the guild is under way, the transport carries
\* track audio only with now_playing set, and now_playing is set only while
\* the guild has a voice connection.
C14_NowPlayingMatchesConnection ==
    Quiet(G1) =>
        /\ TrackOnTransport(G1) => G1 \in DOMAIN now_playing
        /\ G1 \in DOMAIN now_playing => IsConnected(G1)

(***************************************************************************)
(* The empty-queue path of on_song_end, lines 540-570.                     *)
(***************************************************************************)
\* the completion callback t of g goes on to select and finds nothing queued
FindsQueuesEmpty(g, t) ==
    /\ Completion(g, t) /\ Advances(g)
    /\ ~LoopsSingle(g)
    /\ NextFrom(priority_queues, QueueAfterLoop(g), g) = "none"
AddedTasks(g, kinds) == NumTasks(g, kinds)' - NumTasks(g, kinds)

\* C20: a completion callback that selects a next track and finds both queues
\* empty replenishes once: when the catalog offers tracks, at most MinRegular
\* are drawn, the first of them becomes now-playing and is handed to
\* play_song, the rest are the regular queue, and no disconnect is scheduled;
\* when it offers none, now-playing is cleared, nothing is handed to
\* play_song and one disconnect is scheduled behind the grace delay.  That
\* disconnect, when it comes, leaves the guild without a voice connection.
C20_Step ==
    \A t \in DOMAIN tasks :
      FindsQueuesEmpty(G1, t) =>
        IF Eligible(G1) # {}
        THEN /\ G1 \in DOMAIN now_playing' /\ now_playing'[G1] \in Eligible(G1)
             /\ Len(Regular(G1)') = Min(MinRegular, Cardinality(Eligible(G1))) - 1
             /\ Range(Regular(G1)') \subseteq Eligible(G1) \ {now_playing'[G1]}
             /\ AddedTasks(G1, {"play_song"}) = 1
             /\ \E p \in DOMAIN tasks' :
                  p.kind = "play_song" /\ p.arg = now_playing'[G1] /\ p.why = "refilled"
             /\ AddedTasks(G1, {"on_song_end_sleep"}) = 0
             /\ IsConnected(G1)'
        ELSE /\ G1 \notin DOMAIN now_playing'
             /\ Regular(G1)' = <<>>
             /\ AddedTasks(G1, {"play_song"}) = 0
             /\ AddedTasks(G1, {"on_song_end_sleep"}) = 1
C20_EmptyQueuePath ==
    /\ [][C20_Step]_vars
    /\ [][OnSongEndDisconnect(G1) => ~IsConnected(G1)']_vars
\* the empty-queue path has run to its disconnect
C20_Witness ==
    /\ ~IsConnected(G1)
    /\ \E t \in DOMAIN tasks : t.kind = "bot_left" /\ t.why = "disconnect"

(***************************************************************************)
(* The bot left alone: one track requested, members leaving and joining,   *)
(* the stop button, and the three places that disconnect.                  *)
(***************************************************************************)
AloneSongs == 2
AloneStarts == 2
AloneCmds == 2
AloneMoves == 3
InitAlone == InitFull(1..AloneSongs, AloneStarts, AloneCmds, AloneMoves, 0)
AloneNext(g) ==
    \/ \E song \in DOMAIN song_cache : Play(g, song) /\ ByUser(g)
    \/ PlayBody(g) /\ Internal
    \/ PlaySong(g) /\ UNCHANGED humans /\ AloneKept
    \/ PlaySongAfterTts(g) /\ Internal
    \/ SongFinished(g) /\ Internal
    \/ TtsFinished(g) /\ Internal
    \/ OnSongEnd(g) /\ Internal
    \/ OnSongEndDisconnect(g) /\ Internal
    \/ BotLeft(g) /\ Internal
    \/ AddRandomSongs(g) /\ Internal
    \/ StopButton(g) /\ ByUser(g)
    \/ StopTransport(g) /\ Internal
    \/ StopDisconnect(g) /\ Internal
    \/ StopDone(g) /\ Internal
    \/ PauseButton(g) /\ ByUser(g)
    \/ HumanLeaves(g)
    \/ HumanJoins(g)
    \/ OnVoiceStateUpdate(g)
    \/ CountdownTick(g)
    \/ CountdownExpires(g)
    \/ CountdownDone(g)
NextAlone == AloneNext("g1")
SpecAlone == InitAlone /\ [][NextAlone]_vars

\* the playback state of g a teardown is to discard
Discarded(g) ==
    /\ g \notin DOMAIN now_playing
    /\ Regular(g) = <<>>
    /\ Priority(g) = <<>>
    /\ ~Get(skip_in_progress, g, FALSE)
    /\ ~Get(stop_in_progress, g, FALSE)
    /\ ~Get(pause_states, g, FALSE)

\* C11: when the countdown of an empty channel has run out with nobody back,
\* has disconnected the guild and finishes, the guild keeps no now-playing
\* track, no priority or regular queue entries, no guard flag and no pause
\* flag for a later session.
C11_Step ==
    (/\ CountdownDone(G1) /\ humans[G1] = 0 /\ ~IsConnected(G1)
     /\ \A t \in DOMAIN tasks : t.kind \in {"countdown_done", "bot_left"})
    => Discarded(G1)'
C11_AloneTimeoutDiscards == [][C11_Step]_vars

\* this step is the join/leave handler of g running on a connected guild
Handles(g) ==
    /\ OnVoiceStateUpdate(g) /\ IsConnected(g)
    /\ NumTasks(g, {"voice_state_update"})' = NumTasks(g, {"voice_state_update"}) - 1

\* C12: the handler that finds a human back in the channel leaves the
\* transport not paused and the connection without alone_since, and a
\* countdown whose final check runs with a human in the channel does not
\* disconnect.
C12_Step ==
    /\ (Handles(G1) /\ humans[G1] > 0) =>
          /\ ~IsPaused(G1)'
          /\ G1 \notin DOMAIN alone_since'
          /\ IsConnected(G1)'
    /\ (CountdownExpires(G1) /\ humans[G1] > 0) => UNCHANGED voice_client
C12_ReturnCancelsCountdown == [][C12_Step]_vars
\* a human is back, the handler has resumed the track and reset the timer, and
\* the countdown started for the empty channel is still to look
C12_Witness ==
    /\ humans[G1] > 0 /\ IsConnected(G1)
    /\ G1 \notin DOMAIN alone_since
    /\ voice_client[G1].player = "song" /\ ~voice_client[G1].paused
    /\ NumTasks(G1, {"voice_state_update"}) = 0
    /\ NumTasks(G1, {"countdown"}) > 0

\* this step is the final check of the countdown t of g, and it disconnects
ExpiresAndDisconnects(g, t) ==
    /\ t.kind = "countdown" /\ t.g = g /\ t.arg = 0
    /\ CountdownExpires(g)
    /\ IsConnected(g) /\ ~IsConnected(g)'

\* C18: a countdown disconnects only for the alone period it was started for:
\* once the alone_since it was started with has been cleared, it never
\* disconnects, even when the channel has emptied again and a new countdown
\* has been started in the meantime.
C18_Step ==
    \A t \in DOMAIN tasks :
      ExpiresAndDisconnects(G1, t) => Get(alone_since, G1, "") = t.why
C18_CancelledCountdownIsInert == [][C18_Step]_vars

(***************************************************************************)
(* An audio source that fails to start.                                    *)
(***************************************************************************)
FaultSongs == 2
FaultStarts == 3
FaultCmds == 2
FaultCount == 1
InitFault == InitFull(1..FaultSongs, FaultStarts, FaultCmds, 0, FaultCount)
FaultNext(g) ==
    \/ \E song \in DOMAIN song_cache : Play(g, song) /\ ByUser(g)
    \/ PlayBody(g) /\ Internal
    \/ PlaySong(g) /\ UNCHANGED humans /\ AloneKept
    \/ PlaySongAfterTts(g) /\ Internal
    \/ PlaySongFails(g)
    \/ SongFinished(g) /\ Internal
    \/ TtsFinished(g) /\ Internal
    \/ OnSongEnd(g) /\ Internal
    \/ OnSongEndDisconnect(g) /\ Internal
    \/ BotLeft(g) /\ Internal
    \/ AddRandomSongs(g) /\ Internal
NextFault == FaultNext("g1")
SpecFault == InitFault /\ [][NextFault]_vars

\* connected, a now-playing track set, nothing on the transport, and nothing
\* under way or pending that could move the guild on
Stuck(g) ==
    /\ IsConnected(g) /\ g \in DOMAIN now_playing
    /\ voice_client[g].player = "none"
    /\ Quiet(g)

\* C13: a guild is never left connected with a now-playing track set, nothing
\* on the transport and no callback or handler pending, also after the
\* transport failed to start a track inside play_song.
C13_NeverStuck == ~Stuck(G1)

(***************************************************************************)
(* The three places that disconnect.                                       *)
(***************************************************************************)
\* this step is one of the three paths arriving at its disconnect
DisconnectPoint(g) == StopDisconnect(g) \/ OnSongEndDisconnect(g) \/ CountdownExpires(g)
\* the disconnects the step issued, counted by the gateway events they cause
DisconnectsIssued(g) == AddedTasks(g, {"bot_left"})

\* C15: a path that arrives at its disconnect while the guild has a voice
\* connection issues at most one disconnect, which ends that connection; a
\* path that arrives after another path has torn the connection down issues
\* none and leaves the connection state alone.
C15_Step ==
    DisconnectPoint(G1) =>
        IF IsConnected(G1)
        THEN \/ DisconnectsIssued(G1) = 1 /\ ~IsConnected(G1)'
             \/ DisconnectsIssued(G1) = 0 /\ UNCHANGED voice_client
        ELSE DisconnectsIssued(G1) = 0 /\ UNCHANGED voice_client
C15_OneDisconnectPerConnection == [][C15_Step]_vars
\* one path has torn the connection down while another is still in its sleep
C15_Witness ==
    /\ ~IsConnected(G1)
    /\ NumTasks(G1, {"bot_left"}) > 0
    /\ NumTasks(G1, {"stop_sleep", "on_song_end_sleep"}) > 0

(***************************************************************************)
(* Telemetry of a natural end.                                             *)
(***************************************************************************)
\* the completion callback t of g runs for the natural end of the now-playing
\* track, connected, with neither guard flag set
NaturalEnd(g, t) ==
    /\ Completion(g, t) /\ t.why = "end"
    /\ Advances(g)
    /\ ~Get(skip_in_progress, g, FALSE)
    /\ g \in DOMAIN now_playing /\ now_playing[g] = t.arg

\* C21: the completion callback of a track that ended naturally, run on a
\* connected guild with neither guard flag set, records exactly one
\* 'completed' event and no 'skipped' event for that track.
C21_Step ==
    \A t \in DOMAIN tasks :
      NaturalEnd(G1, t) =>
         /\ Completed(t.arg)' = Completed(t.arg) + 1
         /\ Skipped(t.arg)' = Skipped(t.arg)
C21_NaturalEndRecorded == [][C21_Step]_vars

(***************************************************************************)
(* The pause and loop buttons.                                             *)
(***************************************************************************)
\* the player of g with its paused status left out
PlayerOf(g) == [player |-> voice_client[g].player, track |-> voice_client[g].track]

\* C22: the pause/resume toggle leaves now-playing, both queues, the loop
\* mode and both guard flags as they are; pressed while the transport plays
\* it pauses the same player, pressed while it is paused it resumes the same
\* player, so two presses in a row bring a playing guild back to playing.
C22_Step ==
    PauseButton(G1) =>
       /\ UNCHANGED <<now_playing, priority_queues, music_queues, loop_modes,
                      skip_in_progress, stop_in_progress>>
       /\ IsPlaying(G1) => IsPaused(G1)' /\ PlayerOf(G1)' = PlayerOf(G1)
       /\ IsPaused(G1) => IsPlaying(G1)' /\ PlayerOf(G1)' = PlayerOf(G1)
C22_PauseTogglesOnlyPaused == [][C22_Step]_vars
\* a track plays again after a pause and a resume
C22_Witness ==
    /\ IsPlaying(G1) /\ voice_client[G1].player = "song"
    /\ G1 \in DOMAIN pause_states /\ pause_states[G1] = FALSE

\* C23: a press of the loop button moves the loop mode of the guild from off
\* (or unset) to single, from single to queue and from queue to off, and
\* changes nothing else: now-playing, both queues, the pause flag, the guard
\* flags, the transport and the pending callbacks stay as they are.
C23_Step ==
    LoopButton(G1) =>
       /\ LoopMode(G1) = "off" => LoopMode(G1)' = "single"
       /\ LoopMode(G1) = "single" => LoopMode(G1)' = "queue"
       /\ LoopMode(G1) = "queue" => LoopMode(G1)' = "off"
       /\ UNCHANGED <<now_playing, priority_queues, music_queues, pause_states,
                      skip_in_progress, stop_in_progress, current_play_start,
                      voice_client, tasks, song_stats, song_cache>>
C23_LoopButtonCycles == [][C23_Step]_vars
\* three presses have brought the mode back to off
C23_Witness == G1 \in DOMAIN loop_modes /\ loop_modes[G1] = "off"

(***************************************************************************)
(* The catalog.                                                            *)
(***************************************************************************)
\* C24: no step of the playback core changes a field of a catalog entry: the
\* catalog is the same before and after every operation.
C24_CatalogReadOnly == [][song_cache' = song_cache]_vars

(***************************************************************************)
(* Two guilds served by the one cog.                                       *)
(***************************************************************************)
GuildsSongs == 2
GuildsStarts == 1
GuildsCmds == 2
GuildsMoves == 2
InitGuilds == InitFull(1..GuildsSongs, GuildsStarts, GuildsCmds, GuildsMoves, 0)
\* every operation of guild g: its commands, callbacks, timers and occupancy events
GuildStep(g) ==
    \/ GuildNext(g)
    \/ HumanLeaves(g)
    \/ HumanJoins(g)
    \/ OnVoiceStateUpdate(g)
    \/ CountdownTick(g)
    \/ CountdownExpires(g)
    \/ CountdownDone(g)
NextGuilds == \E g \in Guilds : GuildStep(g)
SpecGuilds == InitGuilds /\ [][NextGuilds]_vars

\* the per-guild playback state of h
PlaybackState(h) ==
    <<Get(now_playing, h, 0), h \in DOMAIN now_playing,
      Priority(h), h \in DOMAIN priority_queues,
      Regular(h), h \in DOMAIN music_queues,
      LoopMode(h), h \in DOMAIN loop_modes,
      Get(pause_states, h, FALSE), h \in DOMAIN pause_states,
      h \in DOMAIN skip_in_progress, h \in DOMAIN stop_in_progress>>

\* C25: a step taken for guild g (a command, a button, a completion callback,
\* a replenishment, an occupancy event or a countdown step) leaves now-playing,
\* both queues, the loop mode, the pause flag and both guard flags of every
\* other guild as they are.
C25_Step ==
    \A g \in Guilds :
      GuildStep(g) => \A h \in Guilds \ {g} : PlaybackState(h)' = PlaybackState(h)
C26_Step ==
    (PlaySongAfterTts(G1) /\ TrackStarts(G1)) => ~Get(skip_in_progress, G1, FALSE)
C26_SkipFlagNeverStale == [][C26_Step]_vars

(***************************************************************************)
(* The length of the alone period before a disconnect.                     *)
(***************************************************************************)
\* the countdown started when the present alone_since of g was set has slept
\* all its AloneTicks rounds
FullTimeoutElapsed(g) ==
    \A u \in DOMAIN tasks :
      (u.g = g /\ u.kind = "countdown" /\ u.why = Get(alone_since, g, "")) => u.arg = 0

\* C27: when a countdown disconnects the guild, the full alone timeout has
\* elapsed since alone_since was last set: the countdown started at that
\* moment has gone through all its rounds.
C27_Step ==
    \A t \in DOMAIN tasks : ExpiresAndDisconnects(G1, t) => FullTimeoutElapsed(G1)
C27_DisconnectAfterFullTimeout == [][C27_Step]_vars

(***************************************************************************)
(* The recorded pause flag against the transport.                          *)
(***************************************************************************)
\* line 1320: the pause flag the queue view shows
ShownPaused(g) == Get(pause_states, g, FALSE)

\* C28: in every state in which the guild's transport is paused, the recorded
\* pause flag of the guild is true (the half of the claimed agreement that
\* an occupancy pause has to keep).
C28_PauseFlagMatchesTransport == IsPaused(G1) => ShownPaused(G1)

(***************************************************************************)
(* Conservation of the playback counters.                                  *)
(***************************************************************************)
\* C29: a completion callback that runs for the natural end of a track, with
\* no play_song under way, records no 'completed' and no 'skipped' event
\* against any other track than the one whose playback ended.
C29_Step ==
    \A t \in DOMAIN tasks :
      (/\ Completion(G1, t) /\ t.why = "end"
       /\ NumTasks(G1, PlaySongKinds) = 0)
      => \A song \in DOMAIN song_cache \ {t.arg} :
            /\ Completed(song)' = Completed(song)
            /\ Skipped(song)' = Skipped(song)
C29_RecordedAgainstEndedTrack == [][C29_Step]_vars

(***************************************************************************)
(* Members coming and going while others stay.                             *)
(***************************************************************************)
CrowdSongs == 2
CrowdStarts == 2
CrowdCmds == 2
CrowdMoves == 2
InitCrowd == InitFull({CrowdSongs}, CrowdStarts, CrowdCmds, CrowdMoves, 0)
CrowdNext(g) ==
    \/ \E song \in DOMAIN song_cache : Play(g, song) /\ ByUser(g)
    \/ PlayBody(g) /\ Internal
    \/ PlaySong(g) /\ UNCHANGED humans /\ AloneKept
    \/ PlaySongAfterTts(g) /\ Internal
    \/ SongFinished(g) /\ Internal
    \/ TtsFinished(g) /\ Internal
    \/ OnSongEnd(g) /\ Internal
    \/ AddRandomSongs(g) /\ Internal
    \/ PauseButton(g) /\ ByUser(g)
    \/ AnotherHumanJoins(g)
    \/ HumanLeaves(g)
    \/ OnVoiceStateUpdate(g)
    \/ CountdownTick(g)
    \/ CountdownExpires(g)
    \/ CountdownDone(g)
    \/ BotLeft(g) /\ Internal
NextCrowd == CrowdNext("g1")
SpecCrowd == InitCrowd /\ [][NextCrowd]_vars

\* C30: the handler of a membership change that finds humans in the bot's
\* channel and no alone_since on the connection leaves the transport as it
\* is: what plays keeps playing and what a user paused stays paused.
C30_Step ==
    (Handles(G1) /\ humans[G1] > 0 /\ G1 \notin DOMAIN alone_since)
    => UNCHANGED voice_client
C30_CrowdChangeKeepsPause == [][C30_Step]_vars

=============================================================================
